---- MODULE Spec2Model ----
(***************************************************************************)
(* Notes CRUD API (axum handlers over one Postgres table, src/handler.rs). *)
(* The table is a set of rows; every handler is one action, except the     *)
(* PATCH handler, which awaits two statements and is therefore two steps   *)
(* (the SELECT, then the UPDATE) between which other requests may run.     *)
(***************************************************************************)
EXTENDS Integers, Sequences, FiniteSets, TLC

\* ---- bounds of the model ----
MaxNotes == 2
MaxTime == 1
MaxPage == 2
MaxLimit == 2

\* ---- program constants ----
DefaultLimit == 10
DefaultPage == 1

Ids == 1 .. MaxNotes
Titles == {"a", "b"}
Contents == {"x", "y"}
Categories == {"", "c"}
Clients == {"c1", "c2"}

\* Option values and nullable columns: None / NULL is <<>>, Some(v) is <<v>>
None == <<>>
Some(v) == <<v>>
Unwrap(opt) == opt[1]

\* Error texts of the store client
NoErr == "ok"
DuplicateKey == "duplicate key value violates unique constraint"
IoError == "error communicating with database"
RowNotFound == "no rows returned by a query that expected to return at least one row"
NegativeLimit == "LIMIT/OFFSET must not be negative"

VARIABLES
  notes,    \* the notes table: a set of rows
  freeIds,  \* ids the table's id generator has not handed out yet
  clock,    \* current time
  edits,    \* per client: its PATCH request in flight between the two statements
  resp      \* the last response (status 0: the handler panicked, nothing was sent)

vars == <<notes, freeIds, clock, edits, resp>>

Idle == [pc |-> "idle"]

Has(T, id) == \E r \in T : r.id = id
RowOf(T, id) == CHOOSE r \in T : r.id = id

\* ---------------------------------------------------------------------------
\* The store: SQL statements over the table T
\* ---------------------------------------------------------------------------
Result(err, rows, T) == [err |-> err, rows |-> rows, table |-> T]

Min(a, b) == IF a < b THEN a ELSE b

RECURSIVE SortById(_)
SortById(T) ==
  IF T = {} THEN <<>>
  ELSE LET r == CHOOSE x \in T : \A y \in T : x.id <= y.id
       IN  <<r>> \o SortById(T \ {r})

\* SELECT * FROM notes ORDER BY id LIMIT lim OFFSET off
SelectPage(T, lim, off) ==
  IF lim < 0 \/ off < 0 THEN Result(NegativeLimit, <<>>, T)
  ELSE LET s == SortById(T)
           last == Min(off + lim, Len(s))
       IN  Result(NoErr, IF off + 1 > last THEN <<>> ELSE SubSeq(s, off + 1, last), T)

\* the UNIQUE constraint on notes.title
TitleTaken(T, title, exceptId) ==
  \E r \in T : r.title = title /\ r.id # exceptId

\* the row the table stores for an INSERT: generated id, column defaults
NewRow(id, title, content, category, now) ==
  [id |-> id, title |-> title, content |-> content, category |-> Some(category),
   published |-> Some(FALSE), created_at |-> now, updated_at |-> now]

\* INSERT INTO notes (title, content, category) VALUES (..) RETURNING *
InsertNote(T, id, title, content, category, now) ==
  IF TitleTaken(T, title, 0) THEN Result(DuplicateKey, <<>>, T)
  ELSE LET row == NewRow(id, title, content, category, now)
       IN  Result(NoErr, <<row>>, T \cup {row})

\* SELECT * FROM notes WHERE id = id
SelectById(T, id) ==
  Result(NoErr, SortById({r \in T : r.id = id}), T)

\* (variant) an UPDATE that puts the row back when it is gone (an upsert)
UpdateNote_Upsert(T, title, content, category, published, now, id) ==
  IF TitleTaken(T, title, id) THEN Result(DuplicateKey, <<>>, T)
  ELSE LET row == [id |-> id, title |-> title, content |-> content,
                   category |-> Some(category), published |-> Some(published),
                   created_at |-> now, updated_at |-> now]
       IN  Result(NoErr, <<row>>, {r \in T : r.id # id} \cup {row})

\* UPDATE notes SET title, content, category, published, updated_at WHERE id = id RETURNING *
UpdateNote(T, title, content, category, published, now, id) ==
  IF ~Has(T, id) THEN Result(NoErr, <<>>, T)
  ELSE IF TitleTaken(T, title, id) THEN Result(DuplicateKey, <<>>, T)
  ELSE LET old == RowOf(T, id)
           row == [old EXCEPT !.title = title, !.content = content,
                              !.category = Some(category), !.published = Some(published),
                              !.updated_at = now]
       IN  Result(NoErr, <<row>>, (T \ {old}) \cup {row})

\* (variant) a DELETE whose WHERE clause is lost: every row goes
DeleteById_NoWhere(T, id) ==
  Result(NoErr, SortById(T), {})

\* DELETE FROM notes WHERE id = id   (rows: the rows affected)
DeleteById(T, id) ==
  LET hit == {r \in T : r.id = id}
  IN  Result(NoErr, SortById(hit), T \ hit)

\* a statement sent over the pool: it runs, or the store fails it
Execute(res, fail, T) ==
  IF fail THEN Result(IoError, <<>>, T) ELSE res

\* sqlx fetch_all: all rows, possibly none
FetchAll(res) == res

\* sqlx fetch_one: the first row, RowNotFound when there is none
FetchOne(res) ==
  IF res.err = NoErr /\ res.rows = <<>> THEN [res EXCEPT !.err = RowNotFound]
  ELSE res

\* Option::unwrap_or
UnwrapOr(opt, dflt) == IF opt = None THEN dflt ELSE Unwrap(opt)

\* (variant) pages counted from 0
Offset_FromZero(page, limit) == page * limit

\* line 45: the rows to skip, in integer arithmetic as written (the casts to
\* i32 of lines 51-52 leave the values of this model's range as they are)
Offset(page, limit) == (page - 1) * limit

\* (variant) content falls back to the title that was read
MergeFields_WrongFallback(body, note) ==
  [title |-> UnwrapOr(body.title, note.title),
   content |-> UnwrapOr(body.content, note.title),
   category |-> UnwrapOr(body.category, Unwrap(note.category)),
   published |-> UnwrapOr(body.published, Unwrap(note.published))]

\* lines 229-232: each column is the body's value, or else the value that was read
MergeFields(body, note) ==
  [title |-> UnwrapOr(body.title, note.title),
   content |-> UnwrapOr(body.content, note.content),
   category |-> UnwrapOr(body.category, Unwrap(note.category)),
   published |-> UnwrapOr(body.published, Unwrap(note.published))]

Response(op, status, id, rows) ==
  [op |-> op, status |-> status, id |-> id, notes |-> rows]

\* ---------------------------------------------------------------------------
\* Handlers
\* ---------------------------------------------------------------------------
InitWith(clients, ids) ==
  /\ notes = {}
  /\ freeIds = ids
  /\ clock = 0
  /\ edits = [c \in clients |-> Idle]
  /\ resp = Response("none", 0, 0, <<>>)

\* one PATCH request in flight at a time; the other handlers run between its statements
Init == InitWith({"c1"}, Ids)

\* two PATCH requests in flight at a time, over a table of one note
InitConc == InitWith(Clients, {1})

\* time passes
Tick ==
  /\ clock < MaxTime
  /\ clock' = clock + 1
  /\ UNCHANGED <<notes, freeIds, edits, resp>>

\* what a handler leaves behind: its response and the table
Outcome(response, T) == [resp |-> response, table |-> T]

\* GET /api/notes
NoteListResult(page, limit, fail) ==
  LET lim == UnwrapOr(limit, DefaultLimit)
      offset == Offset(UnwrapOr(page, DefaultPage), lim)
      res == FetchAll(Execute(SelectPage(notes, lim, offset), fail, notes))
  IN  IF res.err # NoErr
      THEN Outcome(Response("list", 500, 0, <<>>), res.table)
      ELSE Outcome([op |-> "list", status |-> 200, id |-> 0,
                    results |-> Len(res.rows), notes |-> res.rows], res.table)

NoteListHandler(page, limit, fail) ==
  /\ resp' = NoteListResult(page, limit, fail).resp
  /\ notes' = NoteListResult(page, limit, fail).table
  /\ UNCHANGED <<freeIds, clock, edits>>

\* (variant) the duplicate-key text is not recognised
CreateNoteResult_NoConflict(id, title, content, category, fail) ==
  LET res == FetchAll(Execute(
               InsertNote(notes, id, title, content, UnwrapOr(category, ""), clock),
               fail, notes))
  IN  IF res.err = NoErr THEN Outcome(Response("create", 201, 0, res.rows), res.table)
      ELSE Outcome(Response("create", 500, 0, <<>>), res.table)

\* (variant) an absent category is stored as NULL instead of ""
CreateNoteResult_NullCategory(id, title, content, category, fail) ==
  LET ins == InsertNote(notes, id, title, content, UnwrapOr(category, ""), clock)
      nul == IF category = None /\ ins.err = NoErr
             THEN LET row == [ins.rows[1] EXCEPT !.category = None]
                  IN  Result(NoErr, <<row>>, notes \cup {row})
             ELSE ins
      res == FetchAll(Execute(nul, fail, notes))
  IN  IF res.err = NoErr THEN Outcome(Response("create", 201, 0, res.rows), res.table)
      ELSE IF res.err = DuplicateKey
      THEN Outcome(Response("create", 409, 0, <<>>), res.table)
      ELSE Outcome(Response("create", 500, 0, <<>>), res.table)

\* POST /api/notes
CreateNoteResult(id, title, content, category, fail) ==
  LET res == FetchAll(Execute(
               InsertNote(notes, id, title, content, UnwrapOr(category, ""), clock),
               fail, notes))
  IN  IF res.err = NoErr THEN Outcome(Response("create", 201, 0, res.rows), res.table)
      ELSE IF res.err = DuplicateKey
      THEN Outcome(Response("create", 409, 0, <<>>), res.table)
      ELSE Outcome(Response("create", 500, 0, <<>>), res.table)

CreateNoteHandler(id, title, content, category, fail) ==
  /\ id \in freeIds
  /\ resp' = CreateNoteResult(id, title, content, category, fail).resp
  /\ notes' = CreateNoteResult(id, title, content, category, fail).table
  /\ freeIds' = freeIds \ {r.id : r \in notes'}
  /\ UNCHANGED <<clock, edits>>

\* GET /api/notes/:id
GetNoteResult(id, fail) ==
  LET res == FetchAll(Execute(SelectById(notes, id), fail, notes))
  IN  IF res.err = NoErr THEN Outcome(Response("get", 200, id, res.rows), res.table)
      ELSE Outcome(Response("get", 404, id, <<>>), res.table)

GetNoteHandler(id, fail) ==
  /\ resp' = GetNoteResult(id, fail).resp
  /\ notes' = GetNoteResult(id, fail).table
  /\ UNCHANGED <<freeIds, clock, edits>>

\* PATCH /api/notes/:id, first statement: the SELECT and the check of its result;
\* rows holds the row the handler goes on with, and is empty when it answers 404
EditNoteReadResult(id, fail) ==
  LET res == FetchOne(Execute(SelectById(notes, id), fail, notes))
  IN  IF res.err # NoErr
      THEN [resp |-> Response("edit", 404, id, <<>>), rows |-> <<>>, table |-> res.table]
      ELSE [resp |-> resp, rows |-> res.rows, table |-> res.table]

\* ... after which the handler takes the time and goes on to the UPDATE
EditNoteRead(c, id, fail) ==
  /\ edits[c] = Idle
  /\ resp' = EditNoteReadResult(id, fail).resp
  /\ notes' = EditNoteReadResult(id, fail).table
  /\ edits' = IF EditNoteReadResult(id, fail).rows = <<>> THEN edits
              ELSE [edits EXCEPT ![c] =
                      [pc |-> "write", id |-> id, now |-> clock,
                       note |-> EditNoteReadResult(id, fail).rows[1]]]
  /\ UNCHANGED <<freeIds, clock>>

\* (variant) the row is read again when the UPDATE is built
ReadNote_Fresh(c) ==
  IF Has(notes, edits[c].id) THEN RowOf(notes, edits[c].id) ELSE edits[c].note

\* line 223: the row the first statement fetched
ReadNote(c) == edits[c].note

\* the fields a PATCH leaves out although the stored row no longer holds the value
\* the handler read for them: the UPDATE writes the value read over the stored one
StaleFields(T, id, note, body) ==
  IF ~Has(T, id) THEN {}
  ELSE {f \in DOMAIN body : body[f] = None /\ RowOf(T, id)[f] # note[f]}

\* PATCH /api/notes/:id, second statement: the UPDATE and the response
EditNoteWriteResult(c, body, fail) ==
  LET id == edits[c].id
      note == ReadNote(c)
      m == MergeFields(body, note)
      Answer(status, rows, T) ==
        Outcome([op |-> "edit", status |-> status, id |-> id, notes |-> rows,
                 stale |-> StaleFields(notes, id, note, body)], T)
  IN  IF note.category = None \/ note.published = None
      THEN Answer(0, <<>>, notes)
      ELSE LET res == FetchOne(Execute(
                        UpdateNote(notes, m.title, m.content, m.category, m.published,
                                   edits[c].now, id),
                        fail, notes))
           IN  IF res.err = NoErr THEN Answer(200, res.rows, res.table)
               ELSE Answer(500, <<>>, res.table)

\* (the body is not looked at before the UPDATE is built, so it is drawn here)
EditNoteWrite(c, body, fail) ==
  /\ edits[c].pc = "write"
  /\ resp' = EditNoteWriteResult(c, body, fail).resp
  /\ notes' = EditNoteWriteResult(c, body, fail).table
  /\ edits' = [edits EXCEPT ![c] = Idle]
  /\ UNCHANGED <<freeIds, clock>>

\* DELETE /api/notes/:id
DeleteNoteResult(id, fail) ==
  LET res == Execute(DeleteById(notes, id), fail, notes)
  IN  IF res.err # NoErr THEN Outcome(Response("delete", 0, id, <<>>), res.table)
      ELSE IF Len(res.rows) = 0 THEN Outcome(Response("delete", 404, id, <<>>), res.table)
      ELSE Outcome(Response("delete", 204, id, <<>>), res.table)

DeleteNoteHandler(id, fail) ==
  /\ resp' = DeleteNoteResult(id, fail).resp
  /\ notes' = DeleteNoteResult(id, fail).table
  /\ UNCHANGED <<freeIds, clock, edits>>

\* GET /api/healthchecker
HealthCheckerHandler ==
  /\ resp' = Response("health", 200, 0, <<>>)
  /\ UNCHANGED <<notes, freeIds, clock, edits>>

\* ---------------------------------------------------------------------------
\* Requests
\* ---------------------------------------------------------------------------
Opt(S) == {None} \cup {Some(v) : v \in S}

Fields == {"title", "content", "category", "published"}

Present(body) == {f \in Fields : body[f] # None}

\* PATCH bodies: no field, one field, or all four
Bodies ==
  {b \in [title : Opt(Titles), content : Opt(Contents),
          category : Opt(Categories), published : Opt(BOOLEAN)] :
     Cardinality(Present(b)) \in {0, 1, 4}}

Pages == Opt(0 .. MaxPage)
Limits == Opt(0 .. MaxLimit)

CreateBodies == [title : Titles, content : Contents, category : Opt(Categories)]

\* the requests tried with a statement that runs, or with one the store fails:
\* a handler answers a failed statement without looking at the request, so one
\* request stands for all of them
Requests(S, fail) == IF fail THEN {CHOOSE x \in S : TRUE} ELSE S

ListNotes ==
  \E fail \in BOOLEAN : \E q \in Requests(Pages \X Limits, fail) :
    NoteListHandler(q[1], q[2], fail)

CreateNote ==
  \E id \in Ids, fail \in BOOLEAN : \E b \in Requests(CreateBodies, fail) :
    CreateNoteHandler(id, b.title, b.content, b.category, fail)

GetNote == \E id \in Ids, fail \in BOOLEAN : GetNoteHandler(id, fail)

EditRead == \E c \in DOMAIN edits, id \in Ids, fail \in BOOLEAN : EditNoteRead(c, id, fail)

EditWrite ==
  \E c \in DOMAIN edits, fail \in BOOLEAN : \E body \in Requests(Bodies, fail) :
    EditNoteWrite(c, body, fail)

DeleteNote == \E id \in Ids, fail \in BOOLEAN : DeleteNoteHandler(id, fail)

Next ==
  \/ Tick
  \/ ListNotes
  \/ CreateNote
  \/ GetNote
  \/ EditRead
  \/ EditWrite
  \/ DeleteNote
  \/ HealthCheckerHandler

Spec == Init /\ [][Next]_vars

\* the handlers that write the table, run by two clients: the read-only handlers
\* change nothing but the last response
NextConc ==
  \/ Tick
  \/ CreateNote
  \/ EditRead
  \/ EditWrite
  \/ DeleteNote

SpecConc == InitConc /\ [][NextConc]_vars

\* ---------------------------------------------------------------------------
\* Properties.  Each is stated of the response and the table a handler leaves
\* behind, for every request, in every state the service reaches.
\* ---------------------------------------------------------------------------
\* the clients whose PATCH is between its two statements
InFlight == {c \in DOMAIN edits : edits[c].pc = "write"}

\* the value a request field stands for in a row: title and content are NOT NULL
\* text, category and published are nullable columns
Stored(f, opt) == IF f \in {"category", "published"} THEN opt ELSE Unwrap(opt)

\* in table T the row of `id` holds the body's values over the row `old`
Patched(T, id, body, old) ==
  /\ Has(T, id)
  /\ \A f \in Fields :
       RowOf(T, id)[f] = IF body[f] = None THEN old[f] ELSE Stored(f, body[f])

\* a PATCH's title is the title of another note
TitleClash(c, body) ==
  /\ body.title # None
  /\ \E r \in notes : r.id # edits[c].id /\ r.title = Unwrap(body.title)

\* what a PATCH that ran alone does: the row is patched, nothing else changes
EditEffect(c, body) ==
  LET id == edits[c].id
      old == edits[c].note
      o == EditNoteWriteResult(c, body, FALSE)
  IN  /\ o.resp.status = 200
      /\ Patched(o.table, id, body, old)
      /\ RowOf(o.table, id).id = old.id
      /\ RowOf(o.table, id).created_at = old.created_at
      /\ RowOf(o.table, id).updated_at = edits[c].now
      /\ edits[c].now <= clock
      /\ o.resp.notes = <<RowOf(o.table, id)>>
      /\ o.table \ {RowOf(o.table, id)} = notes \ {old}

\* -- C1 --------------------------------------------------------------------
\* C1: GET /notes/{id} for an id that matches no row answers 404, never success.
C1_GetMissingIsNotFound ==
  \A id \in Ids :
    ~Has(notes, id) => GetNoteResult(id, FALSE).resp.status = 404

\* -- C2 --------------------------------------------------------------------
\* C2: a Create whose title is already in the table answers 409 and inserts
\* nothing; a Create whose statement the store fails answers 500 and inserts nothing.
C2_DuplicateTitleRejected ==
  \A id \in freeIds, b \in CreateBodies :
    /\ (\E r \in notes : r.title = b.title) =>
         LET o == CreateNoteResult(id, b.title, b.content, b.category, FALSE)
         IN  o.resp.status = 409 /\ o.table = notes
    /\ LET o == CreateNoteResult(id, b.title, b.content, b.category, TRUE)
       IN  o.resp.status = 500 /\ o.table = notes

\* a Create was refused for its title while the table holds the note of that title
C2_Witness ==
  /\ resp.op = "create"
  /\ resp.status = 409
  /\ notes # {}

\* -- C3 --------------------------------------------------------------------
\* C3 as claimed: a PATCH that ran alone against an existing note sets every
\* field the body holds, keeps every field it omits, keeps id, created_at and
\* the other notes, and sets updated_at to the time the handler took.
C3_UpdateSetsSuppliedFields ==
  \A c \in InFlight, body \in Bodies :
    edits[c].note \in notes => EditEffect(c, body)

\* C3 as amended: the same, unless the body's title is the title of another
\* note; then the UPDATE is refused, the answer is 500 and the table is unchanged.
C3_UpdateSetsSuppliedFieldsUnlessTitleTaken ==
  \A c \in InFlight, body \in Bodies :
    edits[c].note \in notes =>
      IF TitleClash(c, body)
      THEN LET o == EditNoteWriteResult(c, body, FALSE)
           IN  o.resp.status = 500 /\ o.table = notes
      ELSE EditEffect(c, body)

\* a PATCH succeeded on one of two notes, after the note's creation time
C3_Witness ==
  /\ resp.op = "edit"
  /\ resp.status = 200
  /\ Cardinality(notes) = 2
  /\ resp.notes[1] \in notes
  /\ resp.notes[1].published = Some(TRUE)
  /\ resp.notes[1].updated_at > resp.notes[1].created_at

\* -- C4 --------------------------------------------------------------------
\* C4: a DELETE whose statement runs removes exactly the row of its id and
\* answers 204 when the id is in the table; it answers 404 and changes nothing
\* when it is not.
C4_DeleteRemovesExactlyOne ==
  \A id \in Ids :
    LET o == DeleteNoteResult(id, FALSE)
    IN  IF Has(notes, id)
        THEN /\ o.resp.status = 204
             /\ o.table = notes \ {RowOf(notes, id)}
             /\ ~Has(o.table, id)
        ELSE /\ o.resp.status = 404
             /\ o.table = notes

\* a DELETE succeeded and another note is still there
C4_Witness ==
  /\ resp.op = "delete"
  /\ resp.status = 204
  /\ ~Has(notes, resp.id)
  /\ notes # {}

\* -- C5 --------------------------------------------------------------------
\* C5: a PATCH of an id that is not in the table answers 404 and changes
\* nothing; a store failure of its SELECT or of its UPDATE answers 500.
C5_UpdateFailureStatuses ==
  /\ \A id \in Ids :
       /\ ~Has(notes, id) =>
            LET o == EditNoteReadResult(id, FALSE)
            IN  o.rows = <<>> /\ o.resp.status = 404 /\ o.table = notes
       /\ LET o == EditNoteReadResult(id, TRUE)
          IN  o.rows = <<>> /\ o.resp.status = 500 /\ o.table = notes
  /\ \A c \in InFlight, body \in Bodies :
       LET o == EditNoteWriteResult(c, body, TRUE)
       IN  o.resp.status = 500 /\ o.table = notes

\* -- C6 --------------------------------------------------------------------
\* C6: a DELETE whose statement the store fails answers 404, like a DELETE
\* that removed no row, and the table is unchanged.
C6_DeleteFailureIsNotFound ==
  \A id \in Ids :
    LET o == DeleteNoteResult(id, TRUE)
    IN  o.resp.status = 404 /\ o.table = notes

\* -- C7 --------------------------------------------------------------------
\* the position of a row in the table sorted by ascending id
Rank(T, r) == Cardinality({q \in T : q.id <= r.id})

PositiveOpt(n) == {None} \cup {Some(v) : v \in 1 .. n}

C8_CreateThenGet ==
  /\ \A id \in freeIds, b \in CreateBodies :
       LET o == CreateNoteResult(id, b.title, b.content, b.category, FALSE)
       IN  o.resp.status = 201 =>
             /\ Len(o.resp.notes) = 1
             /\ o.resp.notes[1] \in o.table
             /\ o.resp.notes[1].title = b.title
             /\ o.resp.notes[1].content = b.content
             /\ o.resp.notes[1].category =
                  Some(IF b.category = None THEN "" ELSE Unwrap(b.category))
             /\ o.resp.notes[1].published = Some(FALSE)
  /\ (resp.op = "create" /\ resp.status = 201) =>
       LET o == GetNoteResult(resp.notes[1].id, FALSE)
       IN  o.resp.status = 200 /\ o.resp.notes = resp.notes

\* a GET answered with a note as Create stores it when no category is given
C8_Witness ==
  /\ resp.op = "get"
  /\ resp.status = 200
  /\ Len(resp.notes) = 1
  /\ resp.notes[1].category = Some("")
  /\ resp.notes[1].published = Some(FALSE)
  /\ resp.notes[1].created_at = resp.notes[1].updated_at

\* -- C9 --------------------------------------------------------------------
\* C9: a PATCH that answers 200 leaves in the row, for every field its body
\* omits, the value its own SELECT read, whatever the row holds when the UPDATE
\* runs; so of two PATCHes in flight together the later UPDATE undoes the
\* earlier one's change.
C9_WriteUsesStaleRead ==
  \A c \in InFlight, body \in Bodies :
    LET o == EditNoteWriteResult(c, body, FALSE)
    IN  o.resp.status = 200 => Patched(o.table, edits[c].id, body, edits[c].note)

\* both PATCHes are done, the last one answered 200, and it wrote the value it
\* had read over a field the other one had changed since
C9_Witness ==
  /\ resp.op = "edit"
  /\ resp.status = 200
  /\ resp.stale # {}
  /\ \A c \in DOMAIN edits : edits[c] = Idle
  /\ Has(notes, resp.id)

\* -- C10 -------------------------------------------------------------------
\* C10: a PATCH whose UPDATE finds its row gone answers 500 and changes
\* nothing, and an id the generator has handed out and that is no longer in the
\* table never comes back.
C10_DeletedStaysDeleted ==
  /\ [](\A c \in InFlight, body \in Bodies, fail \in BOOLEAN :
          ~Has(notes, edits[c].id) =>
            LET o == EditNoteWriteResult(c, body, fail)
            IN  o.resp.status = 500 /\ o.table = notes)
  /\ [][\A id \in Ids \ freeIds : ~Has(notes, id) => ~Has(notes', id)]_vars

\* a PATCH answered 500 because its note was deleted after the SELECT
C10_Witness ==
  /\ resp.op = "edit"
  /\ resp.status = 500
  /\ resp.id \notin freeIds
  /\ ~Has(notes, resp.id)

====
